---------------------------- MODULE Spec2Model ----------------------------
(***************************************************************************)
(* Timetable generator: the CP-SAT model builder and solve orchestration   *)
(* of backend/solver/constraint_builder.py, generate_schedule_from_inputs. *)
(*                                                                         *)
(* One behaviour is one call.  Init draws the six arguments of the call    *)
(* from bounded sets; the actions are the successive blocks of the         *)
(* function body.  The CP-SAT backend is not part of the repository: it    *)
(* is modelled by its contract (any valuation satisfying the constraints   *)
(* added to the model, a maximal one when it reports OPTIMAL).             *)
(***************************************************************************)
EXTENDS Integers, Sequences, FiniteSets, TLC

\* ---------------------------------------------------------------- bounds
\* longest entity list (faculty, rooms, subjects, batches) of a call
MaxEntities == 2
\* longest timeslot list of a call
MaxSlots == 3
\* most decision variables a call creates
MaxVars == 8
\* most arguments in which a call differs from BaseInput
MaxDeviations == 2

\* ----------------------------------------------------- program constants
\* range(1,9): the fallback slots slot_1 .. slot_8
FallbackSlotCount == 8
\* room.get("capacity", 9999)
DefaultCapacity == 9999
\* batch.get("student_count", 0)
DefaultStudentCount == 0
\* sub.get("duration", 2)
DefaultDuration == 2
\* settings.SOLVER_MAX_TIME_S
SOLVER_MAX_TIME_S == 10

\* A dict without the key "id": item["id"] raises KeyError, item.get("id") is None.
NoId == "<missing>"

\* An optional numeric field is <<>> (key absent) or <<n>>.
Get(field, default) == IF field = <<>> THEN default ELSE field[1]

\* "x in list" of Python, for a list modelled as a sequence
In(x, list) == \E i \in DOMAIN list : list[i] = x

\* ------------------------------------------------------------ the inputs
Faculty(id, slots, days, preferred) ==
    [id |-> id, available_slots |-> slots, available_days |-> days,
     preferred_slots |-> preferred]

Room(id, capacity, affinity) ==
    [id |-> id, capacity |-> capacity, room_affinity |-> affinity]

Subject(id, type, continuous, duration) ==
    [id |-> id, subject_type |-> type, requires_continuous_slots |-> continuous,
     duration |-> duration]

Batch(id, count, branch, track) ==
    [id |-> id, student_count |-> count, branch_id |-> branch, track_code |-> track]

TimeSlot(id, day) == [id |-> id, day |-> day]

Fix(sub, batch, slot, room, fac) ==
    [subject_id |-> sub, batch_id |-> batch, slot |-> slot, room_id |-> room,
     faculty_id |-> fac]

FacultyPool ==
    << Faculty("f1", <<>>, <<>>, <<>>),
       Faculty("f2", <<"s1">>, <<"Mon">>, <<"s1">>),
       Faculty("f1", <<"s2">>, <<"Tue">>, <<"s2">>),
       Faculty(NoId, <<>>, <<>>, <<>>) >>

RoomPool ==
    << Room("r1", <<50>>, <<>>),
       Room("r2", <<>>, <<"CSE", "TPP">>),
       Room("r1", <<30>>, <<"CSE">>),
       Room(NoId, <<50>>, <<>>) >>

SubjectPool ==
    << Subject("m1", "theory", FALSE, <<1>>),
       Subject("m2", "lab", FALSE, <<2>>),
       Subject("m1", "theory", TRUE, <<2>>),
       Subject("m2", "lab", FALSE, <<1>>),
       Subject("m2", "lab", FALSE, <<>>),
       Subject("m1", "lab", TRUE, <<-1>>),
       Subject("m2", "theory", FALSE, <<2>>),
       Subject(NoId, "theory", FALSE, <<1>>) >>

BatchPool ==
    << Batch("b1", <<40>>, "CSE", "TPP"),
       Batch("b2", <<45>>, "ECE", "NTPP"),
       Batch("b1", <<>>, "ECE", "TPP"),
       Batch("b3", <<60>>, "CSE", "NTPP"),
       Batch(NoId, <<40>>, "CSE", "TPP") >>

SlotPool ==
    << TimeSlot("s1", "Mon"), TimeSlot("s2", "Mon"), TimeSlot("s3", "Tue"),
       TimeSlot("s4", "Tue"), TimeSlot("s5", "Wed") >>

\* strictly increasing index sequences over 1..m, of length at most n
IncSeqs(m, n) ==
    { ix \in UNION { [1..k -> 1..m] : k \in 0..n } :
        \A i \in 1..(Len(ix) - 1) : ix[i] < ix[i + 1] }

\* the lists of at most MaxEntities entities of a pool, in pool order
Lists(pool) ==
    { [i \in 1..Len(ix) |-> pool[ix[i]]] : ix \in IncSeqs(Len(pool), MaxEntities) }

TimeslotLists ==
    { SubSeq(SlotPool, 1, n) : n \in 0..MaxSlots }
        \cup { <<TimeSlot("s1", "Mon"), TimeSlot("s2", "Mon"), TimeSlot("s1", "Mon")>>,
               <<TimeSlot(NoId, "Mon")>> }

FixedLists ==
    { <<>>,
      << Fix("m1", "b1", "s1", "r1", "f1") >>,
      << Fix("m1", "b1", "s2", "r1", "f1") >>,
      << Fix("m2", "b1", "s1", "r1", "f1") >>,
      << Fix("m1", "b1", "s1", "r1", "f9") >>,
      << Fix("m1", "b1", "s1", "r1", "f1"), Fix("m1", "b1", "s1", "r2", "f1") >> }

Overrides ==
    { [fixed_assignments |-> f, max_time_s |-> <<>>] : f \in FixedLists }
        \cup { [fixed_assignments |-> <<>>, max_time_s |-> <<5>>] }

BaseInput ==
    [faculty   |-> << FacultyPool[1] >>,
     rooms     |-> << RoomPool[1] >>,
     subjects  |-> << SubjectPool[1] >>,
     batches   |-> << BatchPool[1] >>,
     timeslots |-> SubSeq(SlotPool, 1, 2),
     overrides |-> [fixed_assignments |-> <<>>, max_time_s |-> <<>>]]

Choices(k) ==
    CASE k = "faculty"   -> Lists(FacultyPool)
      [] k = "rooms"     -> Lists(RoomPool)
      [] k = "subjects"  -> Lists(SubjectPool)
      [] k = "batches"   -> Lists(BatchPool)
      [] k = "timeslots" -> TimeslotLists
      [] k = "overrides" -> Overrides

\* the number of decision variables the call would create (lines 48-60)
NumVars(in) ==
    Len(in.subjects) * Len(in.batches) * Len(in.rooms) * Len(in.faculty)
        * (IF in.timeslots = <<>> THEN FallbackSlotCount ELSE Len(in.timeslots))

\* the calls that differ from BaseInput in the arguments D only
InputsDeviatingIn(D) ==
    { in \in [faculty   : IF "faculty" \in D THEN Choices("faculty") ELSE {BaseInput.faculty},
              rooms     : IF "rooms" \in D THEN Choices("rooms") ELSE {BaseInput.rooms},
              subjects  : IF "subjects" \in D THEN Choices("subjects") ELSE {BaseInput.subjects},
              batches   : IF "batches" \in D THEN Choices("batches") ELSE {BaseInput.batches},
              timeslots : IF "timeslots" \in D THEN Choices("timeslots") ELSE {BaseInput.timeslots},
              overrides : IF "overrides" \in D THEN Choices("overrides") ELSE {BaseInput.overrides}] :
        NumVars(in) <= MaxVars }

Inputs ==
    UNION { InputsDeviatingIn(D) :
              D \in { D \in SUBSET (DOMAIN BaseInput) : Cardinality(D) <= MaxDeviations } }

\* ------------------------------------------------------------- the state
VARIABLES
    faculty_list, room_list, subject_list, batch_list, timeslot_list,
    payload_overrides,                     \* the arguments of the call
    pc,                                    \* the block of the body reached
    faculty_idx, room_idx, subject_idx, batch_idx,
    timeslot_ids,
    assign,                                \* the keys of the dict assign
    model,                                 \* the constraints added to the CpModel
    objective,                             \* key -> coefficient of model.Maximize
    max_time_in_seconds,                   \* solver.parameters.max_time_in_seconds
    status,                                \* what solver.Solve returned
    values,                                \* the keys whose solver.Value is 1
    result,                                \* the returned dict
    raised,                                \* the exception that left the call
    suspended,                             \* the frame of a second call, not running
    task                                   \* the Celery task around the call, if any

args == <<faculty_list, room_list, subject_list, batch_list, timeslot_list,
          payload_overrides>>
indices == <<faculty_idx, room_idx, subject_idx, batch_idx, timeslot_ids>>
vars == <<args, pc, indices, assign, model, objective, max_time_in_seconds, status,
          values, result, raised, suspended, task>>

EmptyModel == [sum_le_1 |-> {}, eq_0 |-> {}, eq_1 |-> {}, le |-> {}]
NoResult == [status |-> "none"]
NoCall == [pc |-> "absent"]
NoTask == [stage |-> "absent"]

Init ==
    /\ \E in \in Inputs :
          /\ faculty_list = in.faculty
          /\ room_list = in.rooms
          /\ subject_list = in.subjects
          /\ batch_list = in.batches
          /\ timeslot_list = in.timeslots
          /\ payload_overrides = in.overrides
    /\ pc = "start"
    /\ faculty_idx = <<>> /\ room_idx = <<>> /\ subject_idx = <<>> /\ batch_idx = <<>>
    /\ timeslot_ids = <<>>
    /\ assign = {}
    /\ model = EmptyModel
    /\ objective = <<>>
    /\ max_time_in_seconds = 0
    /\ status = "NOT_SOLVED"
    /\ values = {}
    /\ result = NoResult
    /\ raised = "none"
    /\ suspended = NoCall
    /\ task = NoTask

\* ------------------------------------------------- lines 6-7 and 32-41
\* {item[key_field]: item for item in items}: a later item replaces an
\* earlier one with the same id
IndexObjects(items) ==
    [id \in { items[i].id : i \in DOMAIN items } |->
        items[CHOOSE i \in DOMAIN items :
                /\ items[i].id = id
                /\ \A j \in DOMAIN items : items[j].id = id => j <= i]]

\* item["id"] raises KeyError for an item without the key
MissingId(items) == \E i \in DOMAIN items : items[i].id = NoId

\* range(0, 8) in place of range(1, 9)
FallbackSlotIds_FromZero == [i \in 1..FallbackSlotCount |-> "slot_" \o ToString(i - 1)]

FallbackSlotIds == [i \in 1..FallbackSlotCount |-> "slot_" \o ToString(i)]

TimeslotIds(list) ==
    IF list = <<>> THEN FallbackSlotIds ELSE [i \in DOMAIN list |-> list[i].id]

\* timeslot_list.reverse() before the ids are taken: the list of the caller is
\* changed in place
BuildIndices_ReversesInput ==
    /\ pc = "start"
    /\ ~ \E l \in {faculty_list, room_list, subject_list, batch_list, timeslot_list} :
            MissingId(l)
    /\ timeslot_list' = [i \in DOMAIN timeslot_list |->
                            timeslot_list[Len(timeslot_list) + 1 - i]]
    /\ faculty_idx' = IndexObjects(faculty_list)
    /\ room_idx' = IndexObjects(room_list)
    /\ subject_idx' = IndexObjects(subject_list)
    /\ batch_idx' = IndexObjects(batch_list)
    /\ timeslot_ids' = TimeslotIds(timeslot_list')
    /\ pc' = "indexed"
    /\ UNCHANGED <<faculty_list, room_list, subject_list, batch_list, payload_overrides,
                   suspended, task, assign, model, objective, status, values, result, raised,
                   max_time_in_seconds>>

BuildIndices ==
    /\ pc = "start"
    /\ ~ \E l \in {faculty_list, room_list, subject_list, batch_list, timeslot_list} :
            MissingId(l)
    /\ faculty_idx' = IndexObjects(faculty_list)
    /\ room_idx' = IndexObjects(room_list)
    /\ subject_idx' = IndexObjects(subject_list)
    /\ batch_idx' = IndexObjects(batch_list)
    /\ timeslot_ids' = TimeslotIds(timeslot_list)
    /\ pc' = "indexed"
    /\ UNCHANGED <<args, suspended, task, assign, model, objective, status, values, result, raised,
                   max_time_in_seconds>>

BuildIndicesRaises ==
    /\ pc = "start"
    /\ \E l \in {faculty_list, room_list, subject_list, batch_list, timeslot_list} :
            MissingId(l)
    /\ raised' = "KeyError"
    /\ pc' = "raised"
    /\ UNCHANGED <<args, suspended, task, indices, assign, model, objective, status, values, result,
                   max_time_in_seconds>>

\* ------------------------------------------------------- lines 43-60
Key(sub, batch, slot, room, fac) == <<sub, batch, slot, room, fac>>

\* assign[(sub_id, batch_id, slot, room_id, fac_id)] = model.NewBoolVar(...)
DecisionVariables ==
    { Key(subject_list[i].id, batch_list[j].id, timeslot_ids[k], room_list[r].id,
          faculty_list[f].id) :
        i \in DOMAIN subject_list, j \in DOMAIN batch_list, k \in DOMAIN timeslot_ids,
        r \in DOMAIN room_list, f \in DOMAIN faculty_list }

CreateVariables ==
    /\ pc = "indexed"
    /\ assign' = DecisionVariables
    /\ pc' = "variables"
    /\ UNCHANGED <<args, suspended, task, indices, model, objective, status, values, result, raised,
                   max_time_in_seconds>>

\* ------------------------------------------------------ lines 62-192
\* no variable is ever appended to to_sum
SumOf_NothingAppended(appended) == [k \in {} |-> 0]

\* the linear expression sum(to_sum): each variable with the number of times
\* the loops appended it
SumOf(appended) ==
    LET K == { appended[t] : t \in { u \in DOMAIN appended : appended[u] \in assign } }
    IN  [k \in K |-> Cardinality({ t \in DOMAIN appended : appended[t] = k })]

\* 1) for each batch and slot: sum over all subjects, rooms, faculties <= 1
BatchSlotSum(batch_id, slot) ==
    SumOf([t \in (DOMAIN subject_list) \X (DOMAIN room_list) \X (DOMAIN faculty_list) |->
             Key(subject_list[t[1]].id, batch_id, slot, room_list[t[2]].id, faculty_list[t[3]].id)])

\* the block of lines 65-78 adds nothing
BatchExclusivity_Skipped == {}

BatchExclusivity ==
    { to_sum \in { BatchSlotSum(batch_list[j].id, timeslot_ids[k]) :
                    j \in DOMAIN batch_list, k \in DOMAIN timeslot_ids } :
        DOMAIN to_sum # {} }

\* 2) for each faculty and slot: sum over all subjects, batches, rooms <= 1
FacultySlotSum(fac_id, slot) ==
    SumOf([t \in (DOMAIN subject_list) \X (DOMAIN batch_list) \X (DOMAIN room_list) |->
             Key(subject_list[t[1]].id, batch_list[t[2]].id, slot, room_list[t[3]].id, fac_id)])

\* the block of lines 81-92 adds nothing
FacultyExclusivity_Skipped == {}

FacultyExclusivity ==
    { to_sum \in { FacultySlotSum(faculty_list[f].id, timeslot_ids[k]) :
                    f \in DOMAIN faculty_list, k \in DOMAIN timeslot_ids } :
        DOMAIN to_sum # {} }

\* 3) for each room and slot: sum over all subjects, batches, faculties <= 1
RoomSlotSum(room_id, slot) ==
    SumOf([t \in (DOMAIN subject_list) \X (DOMAIN batch_list) \X (DOMAIN faculty_list) |->
             Key(subject_list[t[1]].id, batch_list[t[2]].id, slot, room_id, faculty_list[t[3]].id)])

\* the block of lines 95-106 adds nothing
RoomExclusivity_Skipped == {}

RoomExclusivity ==
    { to_sum \in { RoomSlotSum(room_list[r].id, timeslot_ids[k]) :
                    r \in DOMAIN room_list, k \in DOMAIN timeslot_ids } :
        DOMAIN to_sum # {} }

\* 4) if available_slots and slot not in available_slots: v == 0
\* "slot in available_slots" for "slot not in available_slots"
SlotForbidden_Inverted(fac, slot) ==
    fac.available_slots # <<>> /\ In(slot, fac.available_slots)

SlotForbidden(fac, slot) ==
    fac.available_slots # <<>> /\ ~ In(slot, fac.available_slots)

FacultyAvailability ==
    { Key(subject_list[i].id, batch_list[j].id, timeslot_ids[k], room_list[r].id,
          faculty_list[f].id) :
        <<i, j, k, r, f>> \in
          { t \in (DOMAIN subject_list) \X (DOMAIN batch_list) \X (DOMAIN timeslot_ids)
                    \X (DOMAIN room_list) \X (DOMAIN faculty_list) :
              SlotForbidden(faculty_list[t[5]], timeslot_ids[t[3]]) } } \cap assign

\* 5) if student_count > capacity: v == 0 for every slot and faculty
\* "student_count < capacity" for "student_count > capacity"
OverCapacity_Reversed(room, batch) ==
    Get(batch.student_count, DefaultStudentCount) < Get(room.capacity, DefaultCapacity)

OverCapacity(room, batch) ==
    Get(batch.student_count, DefaultStudentCount) > Get(room.capacity, DefaultCapacity)

RoomCapacity ==
    { Key(subject_list[i].id, batch_list[j].id, timeslot_ids[k], room_list[r].id,
          faculty_list[f].id) :
        <<i, j, k, r, f>> \in
          { t \in (DOMAIN subject_list) \X (DOMAIN batch_list) \X (DOMAIN timeslot_ids)
                    \X (DOMAIN room_list) \X (DOMAIN faculty_list) :
              OverCapacity(room_list[t[4]], batch_list[t[2]]) } } \cap assign

\* 6) lab continuity
\* slot_index = {s: i for i, s in enumerate(timeslot_ids)}: the last position
\* of the slot, counted from 1 here
SlotIndex(slot) ==
    CHOOSE i \in DOMAIN timeslot_ids :
        /\ timeslot_ids[i] = slot
        /\ \A j \in DOMAIN timeslot_ids : timeslot_ids[j] = slot => j <= i

\* the flag requires_continuous_slots is not looked at
IsContinuous_LabOnly(sub) == sub.subject_type = "lab"

\* sub.get("subject_type") == "lab" or sub.get("requires_continuous_slots")
IsContinuous(sub) == sub.subject_type = "lab" \/ sub.requires_continuous_slots

Required(sub) == Get(sub.duration, DefaultDuration)

\* ok: no offset in range(required) leaves the slot list
RunFits(si, required) ==
    \A offset \in 0..(required - 1) : si + offset <= Len(timeslot_ids)

\* consec_slots
ConsecSlots(si, required) == [o \in 1..required |-> timeslot_ids[si + o - 1]]

\* the (subject, batch, start slot) triples the continuity loops visit
ContinuityStarts ==
    { t \in (DOMAIN subject_list) \X (DOMAIN batch_list) \X (DOMAIN timeslot_ids) :
        IsContinuous(subject_list[t[1]]) }

\* "can't start here": v == 0 for every room and faculty
ContinuityForbidden ==
    { Key(subject_list[t[1]].id, batch_list[t[2]].id, timeslot_ids[t[3]],
          room_list[r].id, faculty_list[f].id) :
        t \in { u \in ContinuityStarts :
                  ~ RunFits(SlotIndex(timeslot_ids[u[3]]), Required(subject_list[u[1]])) },
        r \in DOMAIN room_list, f \in DOMAIN faculty_list } \cap assign

\* no v_first <= v_succ is added
ContinuityLinks_None == {}

\* model.Add(v_first <= v_succ) for every slot of consec_slots[1:]
ContinuityLinks ==
    UNION {
      LET sub    == subject_list[t[1]]
          si     == SlotIndex(timeslot_ids[t[3]])
          consec == ConsecSlots(si, Required(sub))
      IN  { << Key(sub.id, batch_list[t[2]].id, timeslot_ids[t[3]], room_list[r].id,
                   faculty_list[f].id),
               Key(sub.id, batch_list[t[2]].id, consec[o], room_list[r].id,
                   faculty_list[f].id) >> :
              o \in 2..Len(consec), r \in DOMAIN room_list, f \in DOMAIN faculty_list } :
      t \in { u \in ContinuityStarts :
                RunFits(SlotIndex(timeslot_ids[u[3]]), Required(subject_list[u[1]])) } }
      \cap (assign \X assign)

\* 8) fixed assignments: v == 1 when assign.get(...) is not None
FixedAssignments ==
    LET fixed == payload_overrides.fixed_assignments
    IN  { Key(fixed[n].subject_id, fixed[n].batch_id, fixed[n].slot, fixed[n].room_id,
              fixed[n].faculty_id) : n \in DOMAIN fixed } \cap assign

\* the capacity block adds v == 1 where it should add v == 0
AddHardConstraints_CapacityForcesOne ==
    /\ pc = "variables"
    /\ model' = [sum_le_1 |-> BatchExclusivity \cup FacultyExclusivity \cup RoomExclusivity,
                 eq_0     |-> FacultyAvailability \cup ContinuityForbidden,
                 eq_1     |-> FixedAssignments \cup RoomCapacity,
                 le       |-> ContinuityLinks]
    /\ pc' = "constrained"
    /\ UNCHANGED <<args, suspended, task, indices, assign, objective, status, values, result, raised,
                   max_time_in_seconds>>

AddHardConstraints ==
    /\ pc = "variables"
    /\ model' = [sum_le_1 |-> BatchExclusivity \cup FacultyExclusivity \cup RoomExclusivity,
                 eq_0     |-> FacultyAvailability \cup RoomCapacity \cup ContinuityForbidden,
                 eq_1     |-> FixedAssignments,
                 le       |-> ContinuityLinks]
    /\ pc' = "constrained"
    /\ UNCHANGED <<args, suspended, task, indices, assign, objective, status, values, result, raised,
                   max_time_in_seconds>>

\* ------------------------------------------------------ lines 194-215
\* next((x for x in items if x.get("id") == id), {}): the first item with the id
FirstWithId(items, id) ==
    items[CHOOSE i \in DOMAIN items :
            /\ items[i].id = id
            /\ \A j \in DOMAIN items : items[j].id = id => i <= j]

PreferredBonus(key) ==
    IF In(key[3], FirstWithId(faculty_list, key[5]).preferred_slots) THEN 1 ELSE 0

\* one bonus for a matching branch_id and one more for a matching track_code
AffinityBonus_PerMatch(key) ==
    LET affinities == FirstWithId(room_list, key[4]).room_affinity
        batch      == FirstWithId(batch_list, key[2])
    IN  (IF In(batch.branch_id, affinities) THEN 1 ELSE 0)
          + (IF In(batch.track_code, affinities) THEN 1 ELSE 0)

AffinityBonus(key) ==
    LET affinities == FirstWithId(room_list, key[4]).room_affinity
        batch      == FirstWithId(batch_list, key[2])
    IN  IF In(batch.branch_id, affinities) \/ In(batch.track_code, affinities)
        THEN 1 ELSE 0

\* the coefficient starts at 0
Coeff_NoBase(key) == PreferredBonus(key) + AffinityBonus(key)

Coeff(key) == 1 + PreferredBonus(key) + AffinityBonus(key)

BuildObjective ==
    /\ pc = "constrained"
    /\ objective' = [key \in assign |-> Coeff(key)]
    /\ pc' = "built"
    /\ UNCHANGED <<args, suspended, task, indices, assign, model, status, values, result, raised,
                   max_time_in_seconds>>

\* ------------------------------------------------------ lines 217-219
RECURSIVE SumOver(_, _)
SumOver(S, f) ==
    IF S = {} THEN 0
    ELSE LET x == CHOOSE y \in S : TRUE IN f[x] + SumOver(S \ {x}, f)

\* a valuation, given as the set of variables with value 1, satisfies every
\* constraint added to the model
Satisfies(chosen) ==
    /\ \A to_sum \in model.sum_le_1 : SumOver(DOMAIN to_sum \cap chosen, to_sum) <= 1
    /\ model.eq_0 \cap chosen = {}
    /\ model.eq_1 \subseteq chosen
    /\ \A link \in model.le : link[1] \in chosen => link[2] \in chosen

Solutions == { chosen \in SUBSET assign : Satisfies(chosen) }

\* model.Minimize in place of model.Maximize
ObjectiveValue_Minimized(chosen) == 0 - SumOver(chosen, objective)

ObjectiveValue(chosen) == SumOver(chosen, objective)

\* the override is not consulted
TimeBudget_ConfiguredOnly == SOLVER_MAX_TIME_S

\* float(payload_overrides.get("max_time_s", settings.SOLVER_MAX_TIME_S))
TimeBudget == Get(payload_overrides.max_time_s, SOLVER_MAX_TIME_S)

\* solver.Solve(model) proves a solution maximal
SolveOptimal ==
    /\ pc = "built"
    /\ \E chosen \in Solutions :
          /\ \A other \in Solutions : ObjectiveValue(other) <= ObjectiveValue(chosen)
          /\ values' = chosen
    /\ status' = "OPTIMAL"
    /\ max_time_in_seconds' = TimeBudget
    /\ pc' = "solved"
    /\ UNCHANGED <<args, suspended, task, indices, assign, model, objective, result, raised>>

\* the time budget ends with a solution found and not proved maximal
SolveFeasible ==
    /\ pc = "built"
    /\ \E chosen \in Solutions : values' = chosen
    /\ status' = "FEASIBLE"
    /\ max_time_in_seconds' = TimeBudget
    /\ pc' = "solved"
    /\ UNCHANGED <<args, suspended, task, indices, assign, model, objective, result, raised>>

\* no valuation satisfies the constraints
SolveInfeasible ==
    /\ pc = "built"
    /\ Solutions = {}
    /\ status' = "INFEASIBLE"
    /\ max_time_in_seconds' = TimeBudget
    /\ pc' = "solved"
    /\ UNCHANGED <<args, suspended, task, indices, assign, model, objective, values, result, raised>>

\* the time budget ends with nothing found
SolveUnknown ==
    /\ pc = "built"
    /\ status' = "UNKNOWN"
    /\ max_time_in_seconds' = TimeBudget
    /\ pc' = "solved"
    /\ UNCHANGED <<args, suspended, task, indices, assign, model, objective, values, result, raised>>

\* ------------------------------------------------------ lines 221-235
\* dict order: a key stays where it was first inserted by the loops of lines 48-60
FirstIndex(ids, id) ==
    CHOOSE i \in DOMAIN ids : ids[i] = id /\ \A j \in DOMAIN ids : ids[j] = id => i <= j

IdsOf(items) == [i \in DOMAIN items |-> items[i].id]

InsertionRank(key) ==
    ((((FirstIndex(IdsOf(subject_list), key[1]) - 1) * Len(batch_list)
        + (FirstIndex(IdsOf(batch_list), key[2]) - 1)) * Len(timeslot_ids)
        + (FirstIndex(timeslot_ids, key[3]) - 1)) * Len(room_list)
        + (FirstIndex(IdsOf(room_list), key[4]) - 1)) * Len(faculty_list)
        + (FirstIndex(IdsOf(faculty_list), key[5]) - 1)

\* room_id and faculty_id take each other's value
Record_RoomFacultySwapped(key) ==
    [subject_id |-> key[1], batch_id |-> key[2], slot |-> key[3], room_id |-> key[5],
     faculty_id |-> key[4]]

Record(key) ==
    [subject_id |-> key[1], batch_id |-> key[2], slot |-> key[3], room_id |-> key[4],
     faculty_id |-> key[5]]

\* for key, var in assign.items(): if solver.Value(var) == 1: assignments.append(...)
Assignments(chosen) ==
    [n \in 1..Cardinality(chosen) |->
        Record(CHOOSE key \in chosen :
                 Cardinality({ k \in chosen : InsertionRank(k) < InsertionRank(key) })
                    = n - 1)]

\* every status but INFEASIBLE is taken for a solution
ReturnOk_NotInfeasible ==
    /\ pc = "solved"
    /\ status # "INFEASIBLE"
    /\ result' = [status |-> "ok",
                  assignments_count |-> Len(Assignments(values)),
                  assignments |-> Assignments(values)]
    /\ pc' = "returned"
    /\ UNCHANGED <<args, suspended, task, indices, assign, model, objective, status, values, raised,
                   max_time_in_seconds>>

\* a solution without assignments is reported as "unsat"
ReturnOk_EmptyIsUnsat ==
    /\ pc = "solved"
    /\ status \in {"OPTIMAL", "FEASIBLE"}
    /\ result' = IF values = {}
                 THEN [status |-> "unsat"]
                 ELSE [status |-> "ok",
                       assignments_count |-> Len(Assignments(values)),
                       assignments |-> Assignments(values)]
    /\ pc' = "returned"
    /\ UNCHANGED <<args, suspended, task, indices, assign, model, objective, status, values, raised,
                   max_time_in_seconds>>

ReturnOk ==
    /\ pc = "solved"
    /\ status \in {"OPTIMAL", "FEASIBLE"}
    /\ result' = [status |-> "ok",
                  assignments_count |-> Len(Assignments(values)),
                  assignments |-> Assignments(values)]
    /\ pc' = "returned"
    /\ UNCHANGED <<args, suspended, task, indices, assign, model, objective, status, values, raised,
                   max_time_in_seconds>>

\* only OPTIMAL is taken for a solution
ReturnUnsat_NotOptimal ==
    /\ pc = "solved"
    /\ status # "OPTIMAL"
    /\ result' = [status |-> "unsat"]
    /\ pc' = "returned"
    /\ UNCHANGED <<args, suspended, task, indices, assign, model, objective, status, values, raised,
                   max_time_in_seconds>>

ReturnUnsat ==
    /\ pc = "solved"
    /\ status \notin {"OPTIMAL", "FEASIBLE"}
    /\ result' = [status |-> "unsat"]
    /\ pc' = "returned"
    /\ UNCHANGED <<args, suspended, task, indices, assign, model, objective, status, values, raised,
                   max_time_in_seconds>>

Next ==
    \/ BuildIndices
    \/ BuildIndicesRaises
    \/ CreateVariables
    \/ AddHardConstraints
    \/ BuildObjective
    \/ SolveOptimal
    \/ SolveFeasible
    \/ SolveInfeasible
    \/ SolveUnknown
    \/ ReturnOk
    \/ ReturnUnsat

Spec == Init /\ [][Next]_vars


\* ------------------------------------------ two calls, routes.py lines 20-51
\* Two requests run generate_schedule_from_inputs on the same five lists of
\* IN_MEM, each with its own payload.  The variables above hold the lists and
\* the frame of the running call; suspended holds the frame of the other call.
MaxSharedVars == 4

\* the local variables of the running call
CurrentFrame ==
    [pc |-> pc, payload_overrides |-> payload_overrides,
     faculty_idx |-> faculty_idx, room_idx |-> room_idx, subject_idx |-> subject_idx,
     batch_idx |-> batch_idx, timeslot_ids |-> timeslot_ids, assign |-> assign,
     model |-> model, objective |-> objective,
     max_time_in_seconds |-> max_time_in_seconds, status |-> status,
     values |-> values, result |-> result, raised |-> raised]

\* the frame of a call that has not run a statement yet
NewCall(overrides) ==
    [pc |-> "start", payload_overrides |-> overrides,
     faculty_idx |-> <<>>, room_idx |-> <<>>, subject_idx |-> <<>>,
     batch_idx |-> <<>>, timeslot_ids |-> <<>>, assign |-> {},
     model |-> EmptyModel, objective |-> <<>>,
     max_time_in_seconds |-> 0, status |-> "NOT_SOLVED",
     values |-> {}, result |-> NoResult, raised |-> "none"]

\* the payloads of the two requests
ConcurrentOverrides ==
    { o \in Overrides :
        \/ o.fixed_assignments = <<>>
        \/ o.fixed_assignments = << Fix("m1", "b1", "s1", "r1", "f1") >> }

\* the contents of IN_MEM: BaseInput with at most one list changed
SharedInputs ==
    { in \in UNION { InputsDeviatingIn({k}) : k \in DOMAIN BaseInput \ {"overrides"} } :
        NumVars(in) <= MaxSharedVars }

InitTwo ==
    /\ \E in \in SharedInputs :
          /\ faculty_list = in.faculty
          /\ room_list = in.rooms
          /\ subject_list = in.subjects
          /\ batch_list = in.batches
          /\ timeslot_list = in.timeslots
    /\ payload_overrides \in ConcurrentOverrides
    /\ pc = "start"
    /\ faculty_idx = <<>> /\ room_idx = <<>> /\ subject_idx = <<>> /\ batch_idx = <<>>
    /\ timeslot_ids = <<>>
    /\ assign = {}
    /\ model = EmptyModel
    /\ objective = <<>>
    /\ max_time_in_seconds = 0
    /\ status = "NOT_SOLVED"
    /\ values = {}
    /\ result = NoResult
    /\ raised = "none"
    /\ \E overrides \in ConcurrentOverrides : suspended = NewCall(overrides)
    /\ task = NoTask

\* the running call is suspended and the other call goes on
Switch ==
    /\ suspended # NoCall
    /\ suspended' = CurrentFrame
    /\ pc' = suspended.pc
    /\ payload_overrides' = suspended.payload_overrides
    /\ faculty_idx' = suspended.faculty_idx
    /\ room_idx' = suspended.room_idx
    /\ subject_idx' = suspended.subject_idx
    /\ batch_idx' = suspended.batch_idx
    /\ timeslot_ids' = suspended.timeslot_ids
    /\ assign' = suspended.assign
    /\ model' = suspended.model
    /\ objective' = suspended.objective
    /\ max_time_in_seconds' = suspended.max_time_in_seconds
    /\ status' = suspended.status
    /\ values' = suspended.values
    /\ result' = suspended.result
    /\ raised' = suspended.raised
    /\ UNCHANGED <<faculty_list, room_list, subject_list, batch_list, timeslot_list, task>>

NextTwo ==
    \/ BuildIndices
    \/ BuildIndicesRaises
    \/ CreateVariables
    \/ AddHardConstraints
    \/ BuildObjective
    \/ SolveOptimal
    \/ SolveFeasible
    \/ SolveInfeasible
    \/ SolveUnknown
    \/ ReturnOk
    \/ ReturnUnsat
    \/ Switch

SpecTwo == InitTwo /\ [][NextTwo]_vars

\* ------------------------------- generate_timetable_task, celery_app.py
\* The task imports the solver and the db adapter, fetches the payload from
\* the database when none is given, calls generate_schedule_from_inputs,
\* checks that the result serializes, saves a schedule row and returns a dict.
\* task.trail lists the stages entered, task.schedules the rows committed.
NoReturn == [status |-> "none"]

\* an optional integer is a sequence of at most one integer: None is the
\* empty one, Some(n) holds n
None == <<>>
Some(n) == <<n>>

\* {"status": "error", "error": f"<stage>: {e}", "traceback": ...}
ErrorDict(stage) == [status |-> "error", error |-> stage, traceback |-> "traceback"]

\* the calls the task runs the solver on
TaskInputs == { in \in Inputs : NumVars(in) <= MaxSharedVars }

InitTask ==
    /\ \E in \in TaskInputs : \E given \in BOOLEAN :
          /\ ~ given => in.overrides = BaseInput.overrides
          /\ faculty_list = in.faculty
          /\ room_list = in.rooms
          /\ subject_list = in.subjects
          /\ batch_list = in.batches
          /\ timeslot_list = in.timeslots
          /\ payload_overrides = in.overrides
          /\ task = [stage |-> "import_solver", payload_given |-> given,
                     trail |-> <<>>, schedules |-> <<>>, returned |-> NoReturn]
    /\ pc = "idle"
    /\ faculty_idx = <<>> /\ room_idx = <<>> /\ subject_idx = <<>> /\ batch_idx = <<>>
    /\ timeslot_ids = <<>>
    /\ assign = {}
    /\ model = EmptyModel
    /\ objective = <<>>
    /\ max_time_in_seconds = 0
    /\ status = "NOT_SOLVED"
    /\ values = {}
    /\ result = NoResult
    /\ raised = "none"
    /\ suspended = NoCall

call == <<args, pc, indices, assign, model, objective, max_time_in_seconds, status,
          values, result, raised, suspended>>

\* the task returns the dict and ends
TaskReturns(trail, dict) ==
    task' = [task EXCEPT !.stage = "done", !.trail = trail, !.returned = dict]

\* lines 47-50
ImportSolver ==
    /\ task.stage = "import_solver"
    /\ task' = [task EXCEPT !.stage = "import_adapter",
                            !.trail = Append(@, "import_solver")]
    /\ UNCHANGED call

ImportSolverFails ==
    /\ task.stage = "import_solver"
    /\ TaskReturns(Append(task.trail, "import_solver"), ErrorDict("solver_import_error"))
    /\ UNCHANGED call

\* lines 52-58
ImportAdapter ==
    /\ task.stage = "import_adapter"
    /\ task' = [task EXCEPT !.stage = IF task.payload_given THEN "solve" ELSE "fetch",
                            !.trail = Append(@, "import_adapter")]
    /\ UNCHANGED call

ImportAdapterFails ==
    /\ task.stage = "import_adapter"
    /\ TaskReturns(Append(task.trail, "import_adapter"),
                   ErrorDict("db_adapter_import_error"))
    /\ UNCHANGED call

\* lines 58-62
FetchPayload ==
    /\ task.stage = "fetch"
    /\ task' = [task EXCEPT !.stage = "solve", !.trail = Append(@, "fetch")]
    /\ UNCHANGED call

FetchFails ==
    /\ task.stage = "fetch"
    /\ TaskReturns(Append(task.trail, "fetch"), ErrorDict("db_fetch_failed"))
    /\ UNCHANGED call

\* lines 65-74: the call of generate_schedule_from_inputs starts
CallSolver ==
    /\ task.stage = "solve"
    /\ pc = "idle"
    /\ pc' = "start"
    /\ task' = [task EXCEPT !.trail = Append(@, "solve")]
    /\ UNCHANGED <<args, indices, assign, model, objective, max_time_in_seconds, status,
                   values, result, raised, suspended>>

\* the call returned a dict
SolverReturned ==
    /\ task.stage = "solve"
    /\ pc = "returned"
    /\ task' = [task EXCEPT !.stage = "serialize"]
    /\ UNCHANGED call

\* the exception of the call is swallowed and the task goes on
SolverFailed_GoesOn ==
    /\ task.stage = "solve"
    /\ pc = "raised"
    /\ task' = [task EXCEPT !.stage = "serialize"]
    /\ UNCHANGED call

\* lines 75-76: the call raised
SolverFailed ==
    /\ task.stage = "solve"
    /\ pc = "raised"
    /\ TaskReturns(task.trail, ErrorDict("solver_failed"))
    /\ UNCHANGED call

\* lines 79-98: json.dumps accepts a dict of strings, integers and lists
SerializeResult ==
    /\ task.stage = "serialize"
    /\ task' = [task EXCEPT !.stage = "save", !.trail = Append(@, "serialize")]
    /\ UNCHANGED call

\* the schedule row of save_schedule_into_db_sync(payload, result, name)
ScheduleRow == [id |-> Len(task.schedules) + 1, result |-> result]

\* the summary counts 0 events for a result without assignments
Summary_ZeroForNone ==
    [events |-> IF "assignments" \in DOMAIN result THEN Some(Len(result.assignments))
                                                   ELSE Some(0)]

\* line 108
Summary ==
    [events |-> IF "assignments" \in DOMAIN result THEN Some(Len(result.assignments))
                                                   ELSE None]

\* lines 101-102 and 107-109
SaveSchedule ==
    /\ task.stage = "save"
    /\ task' = [task EXCEPT
                  !.stage = "done",
                  !.trail = Append(@, "save"),
                  !.schedules = Append(@, ScheduleRow),
                  !.returned = [status |-> "success", schedule_id |-> ScheduleRow.id,
                                result_summary |-> Summary]]
    /\ UNCHANGED call

\* lines 103-105: the save raises, before the commit or after it (in
\* session.refresh or int(sched.id))
SaveFails ==
    /\ task.stage = "save"
    /\ \E committed \in BOOLEAN :
          task' = [task EXCEPT
                     !.stage = "done",
                     !.trail = Append(@, "save"),
                     !.schedules = IF committed THEN Append(@, ScheduleRow) ELSE @,
                     !.returned = [status |-> "error", error |-> "save_failed",
                                   traceback |-> "traceback", result |-> result]]
    /\ UNCHANGED call

NextTask ==
    \/ ImportSolver
    \/ ImportSolverFails
    \/ ImportAdapter
    \/ ImportAdapterFails
    \/ FetchPayload
    \/ FetchFails
    \/ CallSolver
    \/ BuildIndices
    \/ BuildIndicesRaises
    \/ CreateVariables
    \/ AddHardConstraints
    \/ BuildObjective
    \/ SolveOptimal
    \/ SolveFeasible
    \/ SolveInfeasible
    \/ SolveUnknown
    \/ ReturnOk
    \/ ReturnUnsat
    \/ SolverReturned
    \/ SolverFailed
    \/ SerializeResult
    \/ SaveSchedule
    \/ SaveFails

SpecTask == InitTask /\ [][NextTask]_vars

\* ------------------------------------------------------------ the claims
ReturnedOk == pc = "returned" /\ result.status = "ok"

\* C1: in an "ok" result at most one record has a given batch_id and slot.
BatchSlotAtMostOnce ==
    ReturnedOk =>
        \A m, n \in DOMAIN result.assignments :
            ( /\ result.assignments[m].batch_id = result.assignments[n].batch_id
              /\ result.assignments[m].slot = result.assignments[n].slot ) => m = n

\* an "ok" result places a batch in a slot where another room with another
\* faculty was open to it: only the batch's own sum keeps the second one out
BatchSlotContended ==
    /\ ReturnedOk
    /\ \E n \in DOMAIN result.assignments : \E key \in assign \ model.eq_0 :
          /\ key[2] = result.assignments[n].batch_id
          /\ key[3] = result.assignments[n].slot
          /\ key[4] # result.assignments[n].room_id
          /\ key[5] # result.assignments[n].faculty_id

\* C2: in an "ok" result at most one record has a given faculty_id and slot.
FacultySlotAtMostOnce ==
    ReturnedOk =>
        \A m, n \in DOMAIN result.assignments :
            ( /\ result.assignments[m].faculty_id = result.assignments[n].faculty_id
              /\ result.assignments[m].slot = result.assignments[n].slot ) => m = n

\* an "ok" result uses a faculty in a slot where another batch in another
\* room was open to the same faculty
FacultySlotContended ==
    /\ ReturnedOk
    /\ \E n \in DOMAIN result.assignments : \E key \in assign \ model.eq_0 :
          /\ key[5] = result.assignments[n].faculty_id
          /\ key[3] = result.assignments[n].slot
          /\ key[2] # result.assignments[n].batch_id
          /\ key[4] # result.assignments[n].room_id

\* C3: in an "ok" result at most one record has a given room_id and slot.
RoomSlotAtMostOnce ==
    ReturnedOk =>
        \A m, n \in DOMAIN result.assignments :
            ( /\ result.assignments[m].room_id = result.assignments[n].room_id
              /\ result.assignments[m].slot = result.assignments[n].slot ) => m = n

\* an "ok" result uses a room in a slot where another batch with another
\* faculty was open to the same room
RoomSlotContended ==
    /\ ReturnedOk
    /\ \E n \in DOMAIN result.assignments : \E key \in assign \ model.eq_0 :
          /\ key[4] = result.assignments[n].room_id
          /\ key[3] = result.assignments[n].slot
          /\ key[2] # result.assignments[n].batch_id
          /\ key[5] # result.assignments[n].faculty_id

\* C4: in an "ok" result no record has a faculty with a non-empty
\* available_slots and a slot outside that list.
FacultyOnlyInAvailableSlots ==
    ReturnedOk =>
        \A n \in DOMAIN result.assignments : \A f \in DOMAIN faculty_list :
            ( /\ faculty_list[f].id = result.assignments[n].faculty_id
              /\ faculty_list[f].available_slots # <<>> )
                => \E a \in DOMAIN faculty_list[f].available_slots :
                      faculty_list[f].available_slots[a] = result.assignments[n].slot

\* an "ok" result uses a faculty whose available_slots leaves out one of the
\* slots of the call
RestrictedFacultyAssigned ==
    /\ ReturnedOk
    /\ \E n \in DOMAIN result.assignments : \E f \in DOMAIN faculty_list :
          /\ faculty_list[f].id = result.assignments[n].faculty_id
          /\ faculty_list[f].available_slots # <<>>
          /\ \E k \in DOMAIN timeslot_ids :
                \A a \in DOMAIN faculty_list[f].available_slots :
                    faculty_list[f].available_slots[a] # timeslot_ids[k]

\* C5: in an "ok" result no record pairs a batch with a room whose capacity
\* is smaller than the batch's student_count.
BatchFitsRoom ==
    ReturnedOk =>
        \A n \in DOMAIN result.assignments :
            \A r \in DOMAIN room_list : \A b \in DOMAIN batch_list :
                ( /\ room_list[r].id = result.assignments[n].room_id
                  /\ batch_list[b].id = result.assignments[n].batch_id )
                    => Get(room_list[r].capacity, DefaultCapacity)
                          >= Get(batch_list[b].student_count, DefaultStudentCount)

\* an "ok" result places a batch that is too large for another room of the call
LargeBatchPlaced ==
    /\ ReturnedOk
    /\ \E n \in DOMAIN result.assignments :
          \E r \in DOMAIN room_list : \E b \in DOMAIN batch_list :
              /\ batch_list[b].id = result.assignments[n].batch_id
              /\ Get(room_list[r].capacity, DefaultCapacity)
                    < Get(batch_list[b].student_count, DefaultStudentCount)

\* C6: in an "ok" result every continuity-constrained subject that is placed
\* for a batch has exactly "duration" records for that batch, in slots that are
\* consecutive in the slot list, all with one room and one faculty.
LabOccupiesOneRun ==
    ReturnedOk =>
        \A i \in DOMAIN subject_list : \A j \in DOMAIN batch_list :
            LET sub  == subject_list[i]
                recs == { n \in DOMAIN result.assignments :
                            /\ result.assignments[n].subject_id = sub.id
                            /\ result.assignments[n].batch_id = batch_list[j].id }
            IN  (IsContinuous(sub) /\ Required(sub) >= 1 /\ recs # {}) =>
                  /\ Cardinality(recs) = Required(sub)
                  /\ \A m, n \in recs :
                        /\ result.assignments[m].room_id = result.assignments[n].room_id
                        /\ result.assignments[m].faculty_id
                              = result.assignments[n].faculty_id
                  /\ \E start \in DOMAIN timeslot_ids :
                        /\ start + Required(sub) - 1 <= Len(timeslot_ids)
                        /\ { result.assignments[n].slot : n \in recs }
                              = { timeslot_ids[start + o] : o \in 0..(Required(sub) - 1) }

\* the call of scenario 3: one lab of duration 2, one batch that fits the one
\* room, one unrestricted faculty, three distinct slots, nothing fixed
LabScenario ==
    /\ Len(subject_list) = 1 /\ Len(batch_list) = 1
    /\ Len(room_list) = 1 /\ Len(faculty_list) = 1
    /\ subject_list[1].subject_type = "lab" /\ subject_list[1].duration = <<2>>
    /\ Len(timeslot_list) = 3
    /\ \A a, b \in 1..3 : timeslot_list[a].id = timeslot_list[b].id => a = b
    /\ ~ OverCapacity(room_list[1], batch_list[1])
    /\ faculty_list[1].available_slots = <<>>
    /\ payload_overrides.fixed_assignments = <<>>

\* C7: in the lab scenario a call the solver settles returns "ok" with the lab
\* in exactly the slots (s1,s2) or exactly the slots (s2,s3), one room and one
\* faculty in both.
LabScenarioPlacesLab ==
    (LabScenario /\ pc = "returned" /\ status # "UNKNOWN") =>
        /\ result.status = "ok"
        /\ result.assignments_count = 2
        /\ { result.assignments[n].slot : n \in DOMAIN result.assignments }
              \in { {timeslot_ids[1], timeslot_ids[2]}, {timeslot_ids[2], timeslot_ids[3]} }
        /\ \A m, n \in DOMAIN result.assignments :
              /\ result.assignments[m].room_id = result.assignments[n].room_id
              /\ result.assignments[m].faculty_id = result.assignments[n].faculty_id

\* C8: in an "ok" result every entry of fixed_assignments is one of the records.
FixedAssignmentsReturned ==
    ReturnedOk =>
        \A n \in DOMAIN payload_overrides.fixed_assignments :
            \E m \in DOMAIN result.assignments :
                result.assignments[m] = payload_overrides.fixed_assignments[n]

\* a fixed entry names an id that is in none of the lists, or a tuple without
\* a decision variable
DanglingFixed ==
    \E n \in DOMAIN payload_overrides.fixed_assignments :
        LET fix == payload_overrides.fixed_assignments[n]
        IN  Key(fix.subject_id, fix.batch_id, fix.slot, fix.room_id, fix.faculty_id)
                \notin { Key(subject_list[i].id, batch_list[j].id, slot,
                             room_list[r].id, faculty_list[f].id) :
                           i \in DOMAIN subject_list, j \in DOMAIN batch_list,
                           slot \in { TimeslotIds(timeslot_list)[k] :
                                        k \in DOMAIN TimeslotIds(timeslot_list) },
                           r \in DOMAIN room_list, f \in DOMAIN faculty_list }

\* C9: a call with a dangling fixed entry never returns a result ("ok" or "unsat").
DanglingFixedNeverReturns == DanglingFixed => pc # "returned"

\* an entity list holds an item without id or two items with one id
BadIds(items) ==
    \/ MissingId(items)
    \/ \E a, b \in DOMAIN items : a # b /\ items[a].id = items[b].id

\* C10: a call whose faculty, room, subject or batch list holds a missing or a
\* duplicate id creates no decision variable and returns no result.
BadIdsStopTheCall ==
    (\E l \in {faculty_list, room_list, subject_list, batch_list} : BadIds(l))
        => (assign = {} /\ pc # "returned")

\* C11: a returned call has status "ok" exactly when the solver status is
\* OPTIMAL or FEASIBLE, and is the record {status: "unsat"}, with no other
\* field, exactly when the solver status is INFEASIBLE or UNKNOWN (time budget
\* spent without a solution); the solver status is one of these four.
StatusMapping ==
    pc = "returned" =>
        /\ status \in {"OPTIMAL", "FEASIBLE", "INFEASIBLE", "UNKNOWN"}
        /\ result.status = "ok" <=> status \in {"OPTIMAL", "FEASIBLE"}
        /\ result.status = "unsat" <=> status \in {"INFEASIBLE", "UNKNOWN"}
        /\ result.status = "ok" =>
              DOMAIN result = {"status", "assignments_count", "assignments"}
        /\ result.status = "unsat" => DOMAIN result = {"status"}

\* the solver proved the model infeasible and the call returned only "unsat"
InfeasibleReturnedUnsat ==
    /\ pc = "returned"
    /\ status = "INFEASIBLE"
    /\ result = [status |-> "unsat"]

\* the call of scenario 1: one subject that is not a lab, one batch of 40, one
\* room of 50, one faculty, two distinct slots, nothing fixed
LectureScenario ==
    /\ Len(subject_list) = 1 /\ Len(batch_list) = 1
    /\ Len(room_list) = 1 /\ Len(faculty_list) = 1
    /\ subject_list[1].subject_type # "lab"
    /\ batch_list[1].student_count = <<40>>
    /\ room_list[1].capacity = <<50>>
    /\ Len(timeslot_list) = 2
    /\ timeslot_list[1].id # timeslot_list[2].id
    /\ payload_overrides.fixed_assignments = <<>>

\* the slots of the call that the one faculty may teach in
OpenSlots ==
    { timeslot_ids[k] : k \in { n \in DOMAIN timeslot_ids :
        \/ faculty_list[1].available_slots = <<>>
        \/ \E a \in DOMAIN faculty_list[1].available_slots :
              faculty_list[1].available_slots[a] = timeslot_ids[n] } }

\* C12 as the spec states it: in the single-lecture scenario a call the solver
\* solves to optimality returns "ok" with exactly one assignment, in one of the
\* two slots.
LectureScenarioOneAssignment ==
    (LectureScenario /\ pc = "returned" /\ status = "OPTIMAL") =>
        /\ result.status = "ok"
        /\ result.assignments_count = 1
        /\ \A n \in DOMAIN result.assignments :
              result.assignments[n].slot \in { timeslot_ids[k] : k \in DOMAIN timeslot_ids }

\* C12 amended: in the single-lecture scenario with a subject that is not
\* continuity-constrained, a call the solver settles returns "ok" with at most
\* one assignment per slot, and an optimal result holds the lecture once in
\* every slot the faculty may teach in: two assignments for a faculty free in
\* both slots.
LectureScenarioFillsSlots ==
    (LectureScenario /\ ~ IsContinuous(subject_list[1])
                     /\ pc = "returned" /\ status # "UNKNOWN") =>
        /\ result.status = "ok"
        /\ result.assignments_count = Len(result.assignments)
        /\ \A m, n \in DOMAIN result.assignments :
              result.assignments[m].slot = result.assignments[n].slot => m = n
        /\ { result.assignments[n].slot : n \in DOMAIN result.assignments } \subseteq OpenSlots
        /\ status = "OPTIMAL" =>
              /\ { result.assignments[n].slot : n \in DOMAIN result.assignments } = OpenSlots
              /\ result.assignments_count = Cardinality(OpenSlots)

\* the lecture of the scenario is returned twice, once in each slot
LectureInBothSlots ==
    /\ LectureScenario /\ ~ IsContinuous(subject_list[1])
    /\ pc = "returned" /\ status = "OPTIMAL"
    /\ result.assignments_count = 2
    /\ result.assignments[1].slot # result.assignments[2].slot

\* the call of scenario 2: one subject, one batch of 60, one room of 50, one
\* faculty, two distinct slots, nothing fixed
OverCapacityScenario ==
    /\ Len(subject_list) = 1 /\ Len(batch_list) = 1
    /\ Len(room_list) = 1 /\ Len(faculty_list) = 1
    /\ batch_list[1].student_count = <<60>>
    /\ room_list[1].capacity = <<50>>
    /\ Len(timeslot_list) = 2
    /\ timeslot_list[1].id # timeslot_list[2].id
    /\ payload_overrides.fixed_assignments = <<>>

\* C13 as the spec states it: in the over-capacity scenario the call returns
\* {status: "unsat"}.
OverCapacityScenarioUnsat ==
    (OverCapacityScenario /\ pc = "returned") => result = [status |-> "unsat"]

\* C13 amended: in the over-capacity scenario every variable is forced to 0 and
\* a call the solver settles returns "ok" with assignments_count 0 and an empty
\* assignment list.
OverCapacityScenarioEmptyOk ==
    (OverCapacityScenario /\ pc = "returned" /\ status # "UNKNOWN") =>
        /\ assign # {}
        /\ assign \subseteq model.eq_0
        /\ result = [status |-> "ok", assignments_count |-> 0, assignments |-> <<>>]

\* the over-capacity call has returned "ok" with nothing scheduled
OverCapacityReturnedEmpty ==
    /\ OverCapacityScenario
    /\ pc = "returned" /\ status = "OPTIMAL"
    /\ result.status = "ok" /\ result.assignments_count = 0

\* the call of scenario 4: two batches, one subject, one slot and one faculty,
\* nothing fixed
SharedFacultyScenario ==
    /\ Len(batch_list) = 2 /\ batch_list[1].id # batch_list[2].id
    /\ Len(subject_list) = 1 /\ Len(faculty_list) = 1
    /\ Len(room_list) >= 1
    /\ \A a, b \in DOMAIN room_list : room_list[a].id = room_list[b].id => a = b
    /\ Len(timeslot_list) = 1
    /\ payload_overrides.fixed_assignments = <<>>

\* C14 as the spec states it: in the shared-faculty scenario the call returns
\* {status: "unsat"}.
SharedFacultyScenarioUnsat ==
    (SharedFacultyScenario /\ pc = "returned") => result = [status |-> "unsat"]

\* C14 amended: in the shared-faculty scenario a call the solver settles
\* returns "ok" with at most one assignment, so the two batches are never both
\* served; when the subject is not continuity-constrained, the faculty may
\* teach in the slot and a batch fits a room, an optimal result serves exactly
\* one batch.
SharedFacultyScenarioServesOne ==
    (SharedFacultyScenario /\ pc = "returned" /\ status # "UNKNOWN") =>
        /\ result.status = "ok"
        /\ result.assignments_count = Len(result.assignments)
        /\ result.assignments_count <= 1
        /\ ( /\ status = "OPTIMAL"
             /\ ~ IsContinuous(subject_list[1])
             /\ ~ SlotForbidden(faculty_list[1], timeslot_ids[1])
             /\ \E r \in DOMAIN room_list : \E b \in DOMAIN batch_list :
                   ~ OverCapacity(room_list[r], batch_list[b]) )
               => result.assignments_count = 1

\* one of two batches that both fit the room is served, the other is not
OneOfTwoBatchesServed ==
    /\ SharedFacultyScenario
    /\ \A r \in DOMAIN room_list : \A b \in DOMAIN batch_list :
          ~ OverCapacity(room_list[r], batch_list[b])
    /\ pc = "returned" /\ status = "OPTIMAL"
    /\ result.assignments_count = 1

\* C15: once the objective is built, the coefficient of every decision
\* variable (subject, batch, slot, room, faculty) is 1, plus 1 if the slot is
\* one of the faculty's preferred_slots, plus 1 if the room's room_affinity
\* holds the batch's branch_id or its track_code (once, also when it holds
\* both); it is 1, 2 or 3.  The faculty, room and batch are the first items of
\* their lists that carry the id.
ObjectiveCoefficients ==
    pc \in {"built", "solved", "returned"} =>
        /\ DOMAIN objective = assign
        /\ \A key \in assign :
              LET fac   == FirstWithId(faculty_list, key[5])
                  room  == FirstWithId(room_list, key[4])
                  batch == FirstWithId(batch_list, key[2])
                  preferred == \E a \in DOMAIN fac.preferred_slots :
                                  fac.preferred_slots[a] = key[3]
                  matching  == { a \in DOMAIN room.room_affinity :
                                   room.room_affinity[a]
                                      \in {batch.branch_id, batch.track_code} }
              IN  /\ objective[key] \in {1, 2, 3}
                  /\ objective[key] = 1 + (IF preferred THEN 1 ELSE 0)
                                        + (IF matching # {} THEN 1 ELSE 0)

\* a variable has the coefficient 3: a preferred slot, and a room whose
\* affinity holds both the branch_id and the track_code of the batch
BothBonusesBothMatches ==
    /\ pc = "built"
    /\ \E key \in assign :
          LET room  == FirstWithId(room_list, key[4])
              batch == FirstWithId(batch_list, key[2])
          IN  /\ objective[key] = 3
              /\ In(batch.branch_id, room.room_affinity)
              /\ In(batch.track_code, room.room_affinity)

\* the variables named by the records of the result
ReturnedKeys ==
    { Key(result.assignments[n].subject_id, result.assignments[n].batch_id,
          result.assignments[n].slot, result.assignments[n].room_id,
          result.assignments[n].faculty_id) : n \in DOMAIN result.assignments }

\* C16: when the solver reports OPTIMAL, the returned assignment set consists
\* of decision variables, satisfies every constraint of the model, and no set
\* of variables that satisfies every constraint has a strictly larger sum of
\* objective coefficients.
OptimalResultIsMaximal ==
    (ReturnedOk /\ status = "OPTIMAL") =>
        /\ ReturnedKeys \subseteq assign
        /\ Cardinality(ReturnedKeys) = result.assignments_count
        /\ Satisfies(ReturnedKeys)
        /\ \A other \in SUBSET assign :
              Satisfies(other) =>
                  SumOver(other, objective) <= SumOver(ReturnedKeys, objective)

\* an optimal result that is not empty, with a lower-scoring set that also
\* satisfies the constraints and a higher-scoring set that does not
OptimumIsBinding ==
    /\ ReturnedOk /\ status = "OPTIMAL"
    /\ ReturnedKeys # {}
    /\ \E other \in SUBSET assign :
          /\ other # {} /\ Satisfies(other)
          /\ SumOver(other, objective) < SumOver(ReturnedKeys, objective)
    /\ \E other \in SUBSET assign :
          /\ ~ Satisfies(other)
          /\ SumOver(other, objective) > SumOver(ReturnedKeys, objective)

\* C17 as the spec states it: every solve of one model with one time budget
\* gives the verdict of the model, so that any two of them agree: "unsat" when
\* no valuation satisfies the constraints, and otherwise "ok" with an
\* assignment set that satisfies them all.
VerdictFollowsFeasibility ==
    pc = "returned" =>
        /\ Solutions = {} => result = [status |-> "unsat"]
        /\ Solutions # {} => (result.status = "ok" /\ ReturnedKeys \in Solutions)

\* C17 amended: a solve of an infeasible model returns "unsat"; a solve of a
\* feasible model returns "ok" with an assignment set that satisfies all
\* constraints, or "unsat" when the time budget is spent with no solution
\* found, and nothing else.
VerdictUpToTimeout ==
    pc = "returned" =>
        /\ Solutions = {} => result = [status |-> "unsat"]
        /\ Solutions # {} =>
              \/ result.status = "ok" /\ ReturnedKeys \in Solutions
              \/ result = [status |-> "unsat"] /\ status = "UNKNOWN"

\* a feasible model with a variable that can be set, whose solve spent the
\* time budget and returned "unsat"
FeasibleModelTimedOut ==
    /\ pc = "returned"
    /\ \E chosen \in Solutions : chosen # {}
    /\ status = "UNKNOWN"
    /\ result = [status |-> "unsat"]

\* what one step of a call may do to the life cycle
LifeCycleStep ==
    /\ pc' = "solved" => pc \in {"built", "solved"}
    /\ pc = "built" => pc' \in {"built", "solved"}
    /\ (pc = "built" /\ pc' = "solved") =>
          /\ DOMAIN objective = assign
          /\ UNCHANGED <<assign, model, objective>>
          /\ status = "NOT_SOLVED"
          /\ status' \in {"OPTIMAL", "FEASIBLE", "INFEASIBLE", "UNKNOWN"}
          /\ max_time_in_seconds' =
                IF payload_overrides.max_time_s # <<>>
                THEN payload_overrides.max_time_s[1] ELSE SOLVER_MAX_TIME_S
    /\ pc = "solved" =>
          /\ pc' \in {"solved", "returned"}
          /\ UNCHANGED <<assign, model, objective, status, values, max_time_in_seconds>>
    /\ pc = "returned" => UNCHANGED vars

\* C18: a call whose model is built submits it to the solver in one step, with
\* the variables, constraints and objective as built and the time budget
\* max_time_s of the overrides or else SOLVER_MAX_TIME_S; the solve ends in
\* exactly one of the four solver statuses, which never changes afterwards;
\* the model is never submitted again; a returned call does nothing more.
LifeCycle == [][LifeCycleStep]_vars

\* a call with max_time_s 5 in its overrides has returned after a solve with
\* that budget
ReturnedWithOverriddenBudget ==
    /\ pc = "returned"
    /\ payload_overrides.max_time_s = <<5>>
    /\ max_time_in_seconds = 5
    /\ status \in {"OPTIMAL", "FEASIBLE", "INFEASIBLE", "UNKNOWN"}

\* a subject that is a lab or asks for continuous slots has a duration below 1
BadDuration ==
    \E i \in DOMAIN subject_list :
        /\ \/ subject_list[i].subject_type = "lab"
           \/ subject_list[i].requires_continuous_slots
        /\ subject_list[i].duration # <<>>
        /\ subject_list[i].duration[1] < 1

\* C20: a call with a continuity-constrained subject of duration below 1 fails
\* while the model is built: it never returns a result ("ok" or "unsat").
BadDurationNeverReturns == BadDuration => pc # "returned"

\* a step leaves the five lists as they are, and either is a step of the
\* running call, which leaves its payload and the frame of the other call as
\* they are, or hands over to the other call with both frames kept
IsolatedStep ==
    /\ UNCHANGED <<faculty_list, room_list, subject_list, batch_list, timeslot_list>>
    /\ \/ suspended' = suspended /\ payload_overrides' = payload_overrides
       \/ suspended' = CurrentFrame /\ CurrentFrame' = suspended

\* the frame of the running call is one that a call running alone on the
\* lists and on its payload reaches
RunsAsAlone ==
    /\ pc = "raised" =>
          /\ raised = "KeyError"
          /\ \E l \in {faculty_list, room_list, subject_list, batch_list, timeslot_list} :
                MissingId(l)
    /\ pc \in {"indexed", "variables", "constrained", "built", "solved", "returned"} =>
          /\ faculty_idx = IndexObjects(faculty_list)
          /\ room_idx = IndexObjects(room_list)
          /\ subject_idx = IndexObjects(subject_list)
          /\ batch_idx = IndexObjects(batch_list)
          /\ timeslot_ids = TimeslotIds(timeslot_list)
    /\ pc \in {"variables", "constrained", "built", "solved", "returned"} =>
          assign = DecisionVariables
    /\ pc \in {"constrained", "built", "solved", "returned"} =>
          model = [sum_le_1 |-> BatchExclusivity \cup FacultyExclusivity \cup RoomExclusivity,
                   eq_0     |-> FacultyAvailability \cup RoomCapacity \cup ContinuityForbidden,
                   eq_1     |-> FixedAssignments,
                   le       |-> ContinuityLinks]
    /\ pc \in {"built", "solved", "returned"} =>
          objective = [key \in assign |-> Coeff(key)]
    /\ pc \in {"solved", "returned"} =>
          /\ max_time_in_seconds = TimeBudget
          /\ status \in {"OPTIMAL", "FEASIBLE"} => values \in Solutions
          /\ status = "OPTIMAL" =>
                \A other \in Solutions : SumOver(other, objective) <= SumOver(values, objective)
          /\ status = "INFEASIBLE" => Solutions = {}
    /\ pc = "returned" =>
          result = IF status \in {"OPTIMAL", "FEASIBLE"}
                   THEN [status |-> "ok",
                         assignments_count |-> Len(Assignments(values)),
                         assignments |-> Assignments(values)]
                   ELSE [status |-> "unsat"]

\* C19: of two calls on the same lists that are interleaved in any way, each
\* builds, solves and returns what it would when running alone on the lists
\* and its own payload; no step of a call changes an input list, its payload,
\* or any part of the frame of the other call.
Isolation == [][IsolatedStep]_vars /\ []RunsAsAlone

\* a call without fixed assignments has returned "ok" while the other call,
\* which has one, is suspended with its own model built
ReturnedBesideBuiltModel ==
    /\ pc = "returned" /\ result.status = "ok" /\ result.assignments_count >= 1
    /\ payload_overrides.fixed_assignments = <<>>
    /\ model.eq_1 = {}
    /\ suspended # NoCall
    /\ suspended.pc = "built"
    /\ suspended.model.eq_1 # {}

\* C21: in an "ok" result the assignments list holds one record {subject_id,
\* batch_id, slot, room_id, faculty_id} for every decision variable whose value
\* is 1 and nothing else, no record twice, and assignments_count is the length
\* of the list.
ResultMaterialized ==
    ReturnedOk =>
        /\ values \subseteq assign
        /\ \A key \in values :
              \E n \in DOMAIN result.assignments :
                  /\ result.assignments[n].subject_id = key[1]
                  /\ result.assignments[n].batch_id = key[2]
                  /\ result.assignments[n].slot = key[3]
                  /\ result.assignments[n].room_id = key[4]
                  /\ result.assignments[n].faculty_id = key[5]
        /\ \A n \in DOMAIN result.assignments :
              /\ DOMAIN result.assignments[n]
                    = {"subject_id", "batch_id", "slot", "room_id", "faculty_id"}
              /\ <<result.assignments[n].subject_id, result.assignments[n].batch_id,
                   result.assignments[n].slot, result.assignments[n].room_id,
                   result.assignments[n].faculty_id>> \in values
        /\ \A m, n \in DOMAIN result.assignments :
              result.assignments[m] = result.assignments[n] => m = n
        /\ DOMAIN result.assignments = 1..Cardinality(values)
        /\ result.assignments_count = Len(result.assignments)

\* an "ok" result with two records, from a solve that left a variable at 0
SomeVariablesReturned ==
    /\ ReturnedOk
    /\ Len(result.assignments) = 2
    /\ assign \ values # {}

\* C22: in an "ok" result no faculty with a non-empty available_days teaches
\* in a slot of the timeslot list whose day is not one of available_days.
FacultyOnlyOnAvailableDays ==
    ReturnedOk =>
        \A n \in DOMAIN result.assignments :
            \A f \in DOMAIN faculty_list : \A k \in DOMAIN timeslot_list :
                ( /\ faculty_list[f].id = result.assignments[n].faculty_id
                  /\ faculty_list[f].available_days # <<>>
                  /\ timeslot_list[k].id = result.assignments[n].slot )
                    => In(timeslot_list[k].day, faculty_list[f].available_days)

\* the id of subject i is carried by no other item of subject_list
UniqueSubject(i) ==
    \A j \in DOMAIN subject_list : subject_list[j].id = subject_list[i].id => j = i

\* subject i is a lab or has the flag requires_continuous_slots
Triggered(i) ==
    subject_list[i].subject_type = "lab" \/ subject_list[i].requires_continuous_slots

\* C24: in the compiled model two subjects with distinct ids and one duration,
\* each a lab or flagged requires_continuous_slots (one may be a lab without
\* the flag, the other flagged without being a lab), have the same
\* constraints up to the subject id: the same variables forced to 0 and the
\* same links between slots.  A subject that is neither has no link, and a
\* variable of it is forced to 0 only by faculty availability or room capacity.
ContinuityTriggersEquivalent ==
    pc \in {"constrained", "built", "solved", "returned"} =>
        /\ \A i, j \in DOMAIN subject_list :
              ( /\ UniqueSubject(i) /\ UniqueSubject(j)
                /\ Triggered(i) /\ Triggered(j)
                /\ Get(subject_list[i].duration, DefaultDuration)
                      = Get(subject_list[j].duration, DefaultDuration) )
                  => /\ \A key \in assign :
                          key[1] = subject_list[i].id =>
                              ( key \in model.eq_0 <=>
                                Key(subject_list[j].id, key[2], key[3], key[4], key[5])
                                    \in model.eq_0 )
                     /\ \A first, succ \in assign :
                          (first[1] = subject_list[i].id /\ succ[1] = subject_list[i].id) =>
                              ( <<first, succ>> \in model.le <=>
                                << Key(subject_list[j].id, first[2], first[3], first[4],
                                       first[5]),
                                   Key(subject_list[j].id, succ[2], succ[3], succ[4],
                                       succ[5]) >> \in model.le )
        /\ \A i \in DOMAIN subject_list :
              (UniqueSubject(i) /\ ~ Triggered(i)) =>
                  /\ \A link \in model.le : link[1][1] # subject_list[i].id
                                            /\ link[2][1] # subject_list[i].id
                  /\ \A key \in model.eq_0 :
                        key[1] = subject_list[i].id =>
                            \/ \E f \in DOMAIN faculty_list :
                                  /\ faculty_list[f].id = key[5]
                                  /\ SlotForbidden(faculty_list[f], key[3])
                            \/ \E r \in DOMAIN room_list : \E b \in DOMAIN batch_list :
                                  /\ room_list[r].id = key[4]
                                  /\ batch_list[b].id = key[2]
                                  /\ OverCapacity(room_list[r], batch_list[b])

\* the model is compiled for a lab without the flag and a flagged subject that
\* is not a lab, both of duration 2, and holds a link for each
BothTriggersCompiled ==
    /\ pc = "constrained"
    /\ \E i, j \in DOMAIN subject_list :
          /\ subject_list[i].subject_type = "lab"
          /\ ~ subject_list[i].requires_continuous_slots
          /\ subject_list[j].subject_type # "lab"
          /\ subject_list[j].requires_continuous_slots
          /\ subject_list[i].id # subject_list[j].id
          /\ Get(subject_list[i].duration, DefaultDuration) = 2
          /\ Get(subject_list[j].duration, DefaultDuration) = 2
          /\ \E link \in model.le : link[1][1] = subject_list[i].id
          /\ \E link \in model.le : link[1][1] = subject_list[j].id

\* C25: for a call with an empty fixed_assignments list the valuation with
\* every variable at 0 satisfies every constraint of the compiled model, the
\* solver never reports INFEASIBLE, and an "unsat" result comes from a spent
\* time budget (UNKNOWN) only.
FeasibleWithoutFixed ==
    payload_overrides.fixed_assignments = <<>> =>
        /\ pc \in {"constrained", "built", "solved", "returned"} =>
              /\ model.eq_1 = {}
              /\ \A to_sum \in model.sum_le_1 : \A key \in DOMAIN to_sum : to_sum[key] >= 1
              /\ {} \in Solutions
        /\ status # "INFEASIBLE"
        /\ (pc = "returned" /\ result.status = "unsat") => status = "UNKNOWN"

\* a call without fixed assignments has returned from a model with all kinds
\* of constraints but forced variables: sums, variables at 0 and links
ConstrainedWithoutFixed ==
    /\ payload_overrides.fixed_assignments = <<>>
    /\ pc = "returned"
    /\ model.sum_le_1 # {} /\ model.eq_0 # {} /\ model.le # {}
    /\ model.eq_0 # assign

\* the ids of the subjects that are a lab or flagged requires_continuous_slots
\* and have a duration of 2 or more
CollapsedSubjects ==
    { subject_list[i].id : i \in { j \in DOMAIN subject_list :
        /\ \/ subject_list[j].subject_type = "lab"
           \/ subject_list[j].requires_continuous_slots
        /\ Get(subject_list[j].duration, DefaultDuration) >= 2 } }

FewestEntities ==
    CHOOSE n \in {Len(batch_list), Len(room_list), Len(faculty_list)} :
        \A m \in {Len(batch_list), Len(room_list), Len(faculty_list)} : n <= m

\* C27: in an "ok" result of a solve that ended OPTIMAL, setting any further
\* decision variable to 1 violates a constraint of the model; and in every
\* "ok" result assignments_count is at most the number of slots of the model
\* times the smallest of the numbers of batches, rooms and faculty.
MaximalFill ==
    ReturnedOk =>
        /\ status = "OPTIMAL" =>
              \A key \in assign \ ReturnedKeys : ~ Satisfies(ReturnedKeys \cup {key})
        /\ result.assignments_count <= Len(timeslot_ids) * FewestEntities

\* an optimal result that fills every slot as far as the entities allow and
\* leaves out a variable that no constraint forces to 0
FilledToTheBound ==
    /\ ReturnedOk /\ status = "OPTIMAL"
    /\ result.assignments_count = Len(timeslot_ids) * FewestEntities
    /\ result.assignments_count >= 2
    /\ \E key \in assign \ ReturnedKeys : key \notin model.eq_0

\* the faculty, room, subject or batch list is empty and nothing is fixed
EmptyEntityList ==
    /\ \E l \in {faculty_list, room_list, subject_list, batch_list} : l = <<>>
    /\ payload_overrides.fixed_assignments = <<>>

\* C28 as stated: a call with an empty entity list and no fixed assignments
\* never ends in an error, creates no decision variable, and a solve that is
\* not cut short by the time budget returns "ok" with no assignment.
EmptyListAlwaysOk ==
    EmptyEntityList =>
        /\ pc # "raised"
        /\ assign = {}
        /\ (pc = "returned" /\ status # "UNKNOWN") =>
              result = [status |-> "ok", assignments_count |-> 0, assignments |-> <<>>]

\* C28 amended: a call with an empty entity list, no fixed assignments and an
\* id on every item of the other lists and of the timeslot list never ends in
\* an error, creates no decision variable, is never INFEASIBLE, and a solve
\* that is not cut short by the time budget returns "ok" with no assignment.
EmptyListWithIdsOk ==
    ( /\ EmptyEntityList
      /\ \A l \in {faculty_list, room_list, subject_list, batch_list, timeslot_list} :
            \A i \in DOMAIN l : l[i].id # NoId )
        => /\ pc # "raised" /\ raised = "none"
           /\ assign = {}
           /\ status # "INFEASIBLE"
           /\ (pc = "returned" /\ status # "UNKNOWN") =>
                 result = [status |-> "ok", assignments_count |-> 0, assignments |-> <<>>]

\* a call with an empty list beside lists that are not empty has returned
\* "ok" with no assignment
EmptyListReturnedOk ==
    /\ EmptyEntityList
    /\ \E l \in {faculty_list, room_list, subject_list, batch_list} : l # <<>>
    /\ ReturnedOk /\ result.assignments_count = 0

StageOrder ==
    IF task.payload_given
    THEN <<"import_solver", "import_adapter", "solve", "serialize", "save">>
    ELSE <<"import_solver", "import_adapter", "fetch", "solve", "serialize", "save">>

\* the stage that an error string names
StageOfError(error) ==
    CASE error = "solver_import_error"     -> "import_solver"
      [] error = "db_adapter_import_error" -> "import_adapter"
      [] error = "db_fetch_failed"         -> "fetch"
      [] error = "solver_failed"           -> "solve"
      [] error = "result_serialize_failed" -> "serialize"
      [] error = "save_failed"             -> "save"

\* C23: the task enters its stages in the order import, (fetch), solve,
\* serialize, save and ends by returning a dict.  A dict with status "error"
\* names the last stage entered, so no later stage ran; a row is committed
\* only in the save stage, never after a failure of the solver or of an
\* earlier stage; status "success" carries the id of the one row committed,
\* which holds the result of the solver, and is returned only after all stages.
TaskOutcome ==
    task.stage # "absent" =>
        /\ \E n \in 0..Len(StageOrder) : task.trail = SubSeq(StageOrder, 1, n)
        /\ task.schedules # <<>> =>
              /\ task.stage = "done"
              /\ task.trail = StageOrder
              /\ pc = "returned"
        /\ task.stage = "done" <=> task.returned # NoReturn
        /\ task.stage = "done" =>
              /\ task.returned.status \in {"success", "error"}
              /\ task.returned.status = "error" =>
                    /\ task.trail # <<>>
                    /\ task.trail[Len(task.trail)] = StageOfError(task.returned.error)
                    /\ task.returned.error = "solver_failed" => pc = "raised"
                    /\ task.returned.error # "save_failed" =>
                          /\ task.schedules = <<>>
                          /\ DOMAIN task.returned = {"status", "error", "traceback"}
              /\ task.returned.status = "success" =>
                    /\ task.trail = StageOrder
                    /\ Len(task.schedules) = 1
                    /\ task.schedules[1].id = task.returned.schedule_id
                    /\ task.schedules[1].result = result
                    /\ pc = "returned"

\* the call raised, and the task ended with the error solver_failed and
\* without a row
SolverFailureReported ==
    /\ task.stage = "done"
    /\ pc = "raised"
    /\ task.returned = ErrorDict("solver_failed")
    /\ task.schedules = <<>>

\* C30 as stated: whenever the solver returned {status: "unsat"} and the task
\* has ended, the task returned status "success" with the id of a saved row
\* holding that result and with result_summary.events = None.
UnsatAlwaysSavedSuccess ==
    (task.stage = "done" /\ pc = "returned" /\ result = [status |-> "unsat"]) =>
        /\ task.returned.status = "success"
        /\ Len(task.schedules) = 1
        /\ task.schedules[1].result = result
        /\ task.schedules[1].id = task.returned.schedule_id
        /\ task.returned.result_summary.events = None

\* C30: when the solver returned without raising and the task has ended,
\* the task either saved a row holding the result and returned "success" with
\* its id, or the save itself failed and the task returned the error
\* save_failed with the result attached; a result "unsat" is treated as a
\* result "ok" is.  On success result_summary.events is None for the result
\* {status: "unsat"} and the number of assignments for a result with an
\* assignments list.
UnsatSavedUnlessSaveFails ==
    (task.stage = "done" /\ pc = "returned") =>
        /\ result.status \in {"ok", "unsat"}
        /\ \/ /\ task.returned.status = "success"
              /\ Len(task.schedules) = 1
              /\ task.schedules[1].result = result
              /\ task.schedules[1].id = task.returned.schedule_id
              /\ result.status = "unsat" =>
                    /\ result = [status |-> "unsat"]
                    /\ task.returned.result_summary.events = None
              /\ result.status = "ok" =>
                    /\ task.returned.result_summary.events = Some(Len(result.assignments))
                    /\ task.returned.result_summary.events # None
           \/ /\ task.returned.status = "error"
              /\ task.returned.error = "save_failed"
              /\ task.returned.result = result

\* the solver returned "unsat", and the task saved it and returned "success"
\* without an event count
UnsatSavedAsSuccess ==
    /\ task.stage = "done"
    /\ pc = "returned"
    /\ result = [status |-> "unsat"]
    /\ task.returned.status = "success"
    /\ task.returned.result_summary.events = None
    /\ task.schedules = <<[id |-> task.returned.schedule_id, result |-> result]>>

=============================================================================
